---- MODULE Spec2Model ----
(***************************************************************************)
(* A model of meshcat-rs (src/src/types.rs): the entity factories, the     *)
(* LumpedObject builder's build(), SetPropertyData::new, Image::new and    *)
(* the Meshcat request/reply client.                                       *)
(*                                                                         *)
(* Conventions.  An Option<T> is a sequence of length at most one: None is *)
(* <<>> and Some(x) is <<x>>.  Uuid::new_v4() is modelled as a counter     *)
(* that never repeats (nextUuid), the usual abstraction of a random        *)
(* 128-bit value.  f64 values are integers; a rotation is an integer 3x3   *)
(* matrix (a tuple of rows), which is exact for the quarter turns used.    *)
(***************************************************************************)
EXTENDS Integers, Sequences, FiniteSets, TLC

VARIABLES
    nextUuid,   \* the next value Uuid::new_v4() returns
    stage,      \* how far the caller is in filling the LumpedObject builder
    geoms,      \* the Vec<Geometry> the caller is putting together
    bld,        \* the builder's fields, each an Option (unset = None)
    inp,        \* Option: the aggregate __build() returned in the last build()
    out,        \* Option: the aggregate the last build() returned
    prevBld,    \* the builder fields of the build() before the last one
    prevOut,    \* Option: the aggregate of the build() before the last one
    runs,       \* "": no build() yet; "first"; then how the second was fed
    prop,       \* the PropertyType value and path given to SetPropertyData::new
    propData,   \* Option: the SetPropertyData it returned
    propWire,   \* Option: that value as encoded by rmp_serde
    propBack,   \* Option: the SetPropertyData decoded from propWire
    pc,         \* where the caller of the Meshcat client is inside its call
    endpoint,   \* Option: the endpoint the client was connected to
    call,       \* Option: the operation called and the data it constructed
    buf,        \* Option: the encoded payload of the call
    sock,       \* the REQ socket: "none" before connect, "ready", or "awaiting" a reply
    wire,       \* the messages sent so far, in order
    inbox,      \* the replies that reached the socket and were not yet read
    served,     \* the number of requests the remote has replied to
    ret,        \* what the last call returned
    ncalls,     \* the number of calls made
    imgPath,    \* the path given to Image::new, a sequence of characters
    imgPc,      \* where Image::new is: "idle", "start", "png", "done", "panicked"
    imgBuf,     \* the String Image::new is filling
    imgReads,   \* the number of files Image::new has read
    imgPanic,   \* the message Image::new panicked with
    img,        \* Option: the Image that Image::new returned
    sharing,    \* how two callers of one client are kept apart ("off": no such callers)
    cpc,        \* for each of the two callers: where it is, its calls, the reply it read
    chan,       \* the socket the two callers use: state, messages sent, replies
    holder      \* who holds the lock around the client, or "nobody"

asmVars == <<nextUuid, stage, geoms, bld, inp, out, prevBld, prevOut, runs>>
propVars == <<prop, propData, propWire, propBack>>
netVars == <<pc, endpoint, call, buf, sock, wire, inbox, served, ret, ncalls>>

imgVars == <<imgPath, imgPc, imgBuf, imgReads, imgPanic, img>>

shVars == <<sharing, cpc, chan, holder>>

vars == <<asmVars, propVars, netVars, imgVars, shVars>>

(***************************************************************************)
(* Bounds of the model.                                                    *)
(***************************************************************************)
MaxGeoms == 2

None == <<>>
Some(x) == <<x>>

(***************************************************************************)
(* Poses: nalgebra's Isometry3 as a translation and a rotation matrix.     *)
(***************************************************************************)
Matrix3_identity == << <<1, 0, 0>>, <<0, 1, 0>>, <<0, 0, 1>> >>

\* UnitQuaternion::from_euler_angles(FRAC_PI_2, 0, 0): a quarter turn about X.
RotX90 == << <<1, 0, 0>>, <<0, 0, -1>>, <<0, 1, 0>> >>

\* A quarter turn about Z, used by the callers' origins.
RotZ90 == << <<0, -1, 0>>, <<1, 0, 0>>, <<0, 0, 1>> >>

Isometry3_identity == [t |-> <<0, 0, 0>>, R |-> Matrix3_identity]

Isometry3_from_parts(t, R) == [t |-> t, R |-> R]

MatMul3(A, B) ==
    [i \in 1..3 |-> [j \in 1..3 |->
        A[i][1] * B[1][j] + A[i][2] * B[2][j] + A[i][3] * B[3][j]]]

MatVec3(A, v) ==
    [i \in 1..3 |-> A[i][1] * v[1] + A[i][2] * v[2] + A[i][3] * v[3]]

\* Isometry3's product (the `*=` of build()): p * q applies q first.
IsoMul(p, q) ==
    [t |-> [i \in 1..3 |-> p.t[i] + MatVec3(p.R, q.t)[i]],
     R |-> MatMul3(p.R, q.R)]

\* Isometry3::to_homogeneous: rotation block, translation column, row 0 0 0 1.
to_homogeneous(p) ==
    [i \in 1..4 |-> [j \in 1..4 |->
        IF i <= 3 /\ j <= 3 THEN p.R[i][j]
        ELSE IF i <= 3 THEN p.t[i]
        ELSE IF j <= 3 THEN 0 ELSE 1]]

\* The origins the modelled callers give to geometries and root objects.
PoseA == Isometry3_from_parts(<<1, 2, 3>>, RotZ90)
Origins == {Isometry3_identity, PoseA}

(***************************************************************************)
(* The entity model.                                                       *)
(***************************************************************************)
GeometryKinds == {"Box", "Cylinder", "Cone"}
ObjectTypes == {"Mesh", "Points", "LineSegments"}

Metadata_default == [metadata_type |-> "Object", version |-> "4.5"]

Geometry_new_with_origin(geometry, origin, u) ==
    [uuid |-> u, geometry |-> geometry, origin |-> origin]

Geometry_new(geometry, u) ==
    Geometry_new_with_origin(geometry, Isometry3_identity, u)

\* Material::builder()...build(): the uuid and map setters are skipped.
Material_builder(material_type, transparent, u) ==
    [uuid |-> u, material_type |-> material_type,
     transparent |-> transparent, side |-> Some(2), map |-> None]

Material_default(u) == Material_builder("MeshPhong", None, u)

TextureType_new_text(text, font_size, font_face) ==
    [variant |-> "Text", text_type |-> "_text", text |-> text,
     font_size |-> font_size, font_face |-> font_face]

TextureType_new_image ==
    [variant |-> "Image", image |-> None,
     repeat |-> <<1, 1>>, wrap |-> <<1001, 1001>>]

Texture_new(texture_type, u) == [uuid |-> u, texture_type |-> texture_type]

\* A variant of Object::new whose object refers to a geometry.
Object_new_WithGeometry(origin, object_type, u) ==
    [uuid |-> u, material |-> None, geometry |-> Some(u), children |-> <<>>,
     matrix |-> to_homogeneous(origin), object_type |-> object_type]

Object_new(origin, object_type, u) ==
    [uuid |-> u, material |-> None, geometry |-> None, children |-> <<>>,
     matrix |-> to_homogeneous(origin), object_type |-> object_type]

Object_default(u) == Object_new(Isometry3_identity, "Mesh", u)

(***************************************************************************)
(* LumpedObjectBuilder::build.                                             *)
(***************************************************************************)
\* How many identifiers __build() mints for the fields left unset.
DefaultsMinted(b) ==
    (IF b.material = None THEN 1 ELSE 0) + (IF b.object = None THEN 1 ELSE 0)

\* The generated __build(): unset fields take their defaults, in field order.
Builder__build(b, u) ==
    [metadata |-> IF b.metadata = None THEN Metadata_default
                  ELSE b.metadata[1],
     texture |-> b.texture,
     image |-> b.image,
     geometries |-> b.geometries[1],
     material |-> IF b.material = None THEN Material_default(u)
                  ELSE b.material[1],
     object |-> IF b.object = None
                THEN Object_default(u + (IF b.material = None THEN 1 ELSE 0))
                ELSE b.object[1]]


\* A variant of LinkTextureImage that keeps a reference the texture has.
LinkTextureImage_OnlyIfUnset(lo) ==
    IF lo.image /= None /\ lo.texture /= None
       /\ lo.texture[1].texture_type.variant = "Image"
       /\ lo.texture[1].texture_type.image = None
    THEN [lo EXCEPT !.texture[1].texture_type.image = Some(lo.image[1].uuid)]
    ELSE lo

\* types.rs 428-435: an image-mapped texture is pointed at the image.
LinkTextureImage(lo) ==
    IF lo.image /= None /\ lo.texture /= None
       /\ lo.texture[1].texture_type.variant = "Image"
    THEN [lo EXCEPT !.texture[1].texture_type.image = Some(lo.image[1].uuid)]
    ELSE lo

\* A variant of LinkMaterialMap that makes the mapped material anew.
LinkMaterialMap_NewMaterial(lo) ==
    IF lo.texture /= None
    THEN [lo EXCEPT !.material =
            [Material_default(lo.material.uuid) EXCEPT
                !.map = Some(lo.texture[1].uuid)]]
    ELSE lo

\* types.rs 437-439: the material's map is pointed at the texture.
LinkMaterialMap(lo) ==
    IF lo.texture /= None
    THEN [lo EXCEPT !.material.map = Some(lo.texture[1].uuid)]
    ELSE lo


\* A variant of LinkObjectMaterial that keeps a reference the root has.
LinkObjectMaterial_OnlyIfUnset(lo) ==
    IF lo.object.material = None
    THEN [lo EXCEPT !.object.material = Some(lo.material.uuid)]
    ELSE lo

\* types.rs 441: the root object is pointed at the material.
LinkObjectMaterial(lo) ==
    [lo EXCEPT !.object.material = Some(lo.material.uuid)]


\* A variant of ChildPose that turns first and applies the origin after.
ChildPose_TurnFirst(geometry) ==
    IF geometry.geometry = "Cylinder"
    THEN IsoMul(Isometry3_from_parts(<<0, 0, 0>>, RotX90), geometry.origin)
    ELSE geometry.origin

\* types.rs 447-453: the pose of the child synthesized for a geometry.
ChildPose(geometry) ==
    IF geometry.geometry = "Cylinder"
    THEN IsoMul(geometry.origin,
                Isometry3_from_parts(<<0, 0, 0>>, RotX90))
    ELSE geometry.origin


\* A variant of MakeChild that gives the child its geometry's identifier.
MakeChild_GeometryId(lo, geometry, u) ==
    [uuid |-> geometry.uuid,
     material |-> Some(lo.material.uuid),
     geometry |-> Some(geometry.uuid),
     children |-> <<>>,
     matrix |-> to_homogeneous(ChildPose(geometry)),
     object_type |-> lo.object.object_type]

\* A variant of MakeChild whose child is always a mesh.
MakeChild_AlwaysMesh(lo, geometry, u) ==
    [uuid |-> u,
     material |-> Some(lo.material.uuid),
     geometry |-> Some(geometry.uuid),
     children |-> <<>>,
     matrix |-> to_homogeneous(ChildPose(geometry)),
     object_type |-> "Mesh"]

\* types.rs 454-461: the child synthesized for a geometry, with a new uuid.
MakeChild(lo, geometry, u) ==
    [uuid |-> u,
     material |-> Some(lo.material.uuid),
     geometry |-> Some(geometry.uuid),
     children |-> <<>>,
     matrix |-> to_homogeneous(ChildPose(geometry)),
     object_type |-> lo.object.object_type]


\* A variant of SetChildren that extends the root's child list.
SetChildren_Extending(lo, u) ==
    [lo EXCEPT !.object.children =
        @ \o [i \in 1..Len(lo.geometries) |->
                MakeChild(lo, lo.geometries[i], u + i - 1)]]

\* A variant of SetChildren that rebuilds the root as a new Object.
SetChildren_NewRoot(lo, u) ==
    [lo EXCEPT !.object.uuid = u + Len(lo.geometries),
               !.object.children =
        [i \in 1..Len(lo.geometries) |->
            MakeChild(lo, lo.geometries[i], u + i - 1)]]

\* types.rs 443-463: the children replace the root's child list.
SetChildren(lo, u) ==
    [lo EXCEPT !.object.children =
        [i \in 1..Len(lo.geometries) |->
            MakeChild(lo, lo.geometries[i], u + i - 1)]]

\* build(): u is the first identifier Uuid::new_v4() hands out.
build(b, u) ==
    SetChildren(
        LinkObjectMaterial(LinkMaterialMap(LinkTextureImage(Builder__build(b, u)))),
        u + DefaultsMinted(b))

\* The identifiers build(b, _) takes from Uuid::new_v4().
buildMints(b) == DefaultsMinted(b) + Len(b.geometries[1])

(***************************************************************************)
(* The caller of the builder.  It first collects its geometries in a       *)
(* vector, then takes the setters in the order of the fields; each may be  *)
(* skipped, except that build() exists only once geometries() was called   *)
(* (the builder's type state).                                             *)
(***************************************************************************)
EmptyBuilder ==
    [metadata |-> None, texture |-> None, image |-> None, geometries |-> None,
     material |-> None, object |-> None]

AsmInit ==
    /\ nextUuid = 1
    /\ stage = "new"
    /\ geoms = <<>>
    /\ bld = EmptyBuilder
    /\ inp = None
    /\ out = None
    /\ prevBld = EmptyBuilder
    /\ prevOut = None
    /\ runs = ""

\* .texture(Texture::new(..)): a text overlay, a new image-mapped texture, or
\* an image-mapped texture whose image and repeat fields the caller has
\* already set.
TextureTypes(u) ==
    {TextureType_new_text("Hello", 12, "sans-serif"),
     TextureType_new_image,
     [TextureType_new_image EXCEPT !.image = Some(u), !.repeat = <<2, 3>>]}

SetTexture ==
    /\ stage = "new"
    /\ \E tt \in TextureTypes(nextUuid) :
        /\ bld' = [bld EXCEPT !.texture = Some(Texture_new(tt, nextUuid + 1))]
        /\ nextUuid' = nextUuid + 2
    /\ stage' = "texture"
    /\ UNCHANGED <<geoms, inp, out, prevBld, prevOut, runs>>
    /\ UNCHANGED <<propVars, netVars, imgVars, shVars>>

\* .image(Image::new("x.png"))
SetImage ==
    /\ stage \in {"new", "texture"}
    /\ bld' = [bld EXCEPT !.image =
                  Some([uuid |-> nextUuid, url |-> "data:image/png;base64,"])]
    /\ nextUuid' = nextUuid + 1
    /\ stage' = "image"
    /\ UNCHANGED <<geoms, inp, out, prevBld, prevOut, runs>>
    /\ UNCHANGED <<propVars, netVars, imgVars, shVars>>

\* Geometry::new / Geometry::new_with_origin, pushed on the caller's vector.
NewGeometry ==
    /\ stage = "new"
    /\ Len(geoms) < MaxGeoms
    /\ \E k \in GeometryKinds, o \in Origins :
        geoms' = Append(geoms,
                    IF o = Isometry3_identity THEN Geometry_new(k, nextUuid)
                    ELSE Geometry_new_with_origin(k, o, nextUuid))
    /\ nextUuid' = nextUuid + 1
    /\ UNCHANGED <<stage, bld, inp, out, prevBld, prevOut, runs>>
    /\ UNCHANGED <<propVars, netVars, imgVars, shVars>>

\* .geometries(vec): any vector, the empty one included.
SetGeometries ==
    /\ stage \in {"new", "texture", "image"}
    /\ bld' = [bld EXCEPT !.geometries = Some(geoms)]
    /\ stage' = "geometries"
    /\ UNCHANGED <<nextUuid, geoms, inp, out, prevBld, prevOut, runs>>
    /\ UNCHANGED <<propVars, netVars, imgVars, shVars>>

\* .material(Material::builder()...build())
SetMaterial ==
    /\ stage = "geometries"
    /\ \E mt \in {"MeshPhong", "LineBasic"}, tr \in {None, Some(TRUE)} :
        bld' = [bld EXCEPT !.material = Some(Material_builder(mt, tr, nextUuid))]
    /\ nextUuid' = nextUuid + 1
    /\ stage' = "material"
    /\ UNCHANGED <<geoms, inp, out, prevBld, prevOut, runs>>
    /\ UNCHANGED <<propVars, netVars, imgVars, shVars>>

\* .object(..): an Object::new(pose, type), or such an object whose public
\* material, geometry and children fields the caller has already written.
SetObject ==
    /\ stage \in {"geometries", "material"}
    /\ \E o \in Origins, ot \in {"Points", "LineSegments"}, carried \in BOOLEAN :
        LET fresh == Object_new(o, ot, nextUuid)
        IN  IF carried
            THEN /\ bld' = [bld EXCEPT !.object = Some(
                        [fresh EXCEPT
                            !.material = Some(nextUuid + 1),
                            !.geometry = Some(nextUuid + 3),
                            !.children = <<Object_new(Isometry3_identity, "Mesh",
                                                      nextUuid + 2)>>])]
                 /\ nextUuid' = nextUuid + 4
            ELSE /\ bld' = [bld EXCEPT !.object = Some(fresh)]
                 /\ nextUuid' = nextUuid + 1
    /\ stage' = "object"
    /\ UNCHANGED <<geoms, inp, out, prevBld, prevOut, runs>>
    /\ UNCHANGED <<propVars, netVars, imgVars, shVars>>

\* .metadata(Metadata { .. }): the setters may come in any order; this one
\* is taken last.
SetMetadata ==
    /\ stage \in {"geometries", "material", "object"}
    /\ bld.metadata = None
    /\ bld' = [bld EXCEPT !.metadata =
                  Some([metadata_type |-> "Scene", version |-> "4.6"])]
    /\ UNCHANGED <<nextUuid, stage, geoms, inp, out, prevBld, prevOut, runs>>
    /\ UNCHANGED <<propVars, netVars, imgVars, shVars>>

\* .build()
Build ==
    /\ stage \in {"geometries", "material", "object"}
    /\ bld.geometries /= None
    /\ inp' = Some(Builder__build(bld, nextUuid))
    /\ out' = Some(build(bld, nextUuid))
    /\ nextUuid' = nextUuid + buildMints(bld)
    /\ stage' = "built"
    /\ runs' = "first"
    /\ UNCHANGED <<geoms, bld, prevBld, prevOut>>
    /\ UNCHANGED <<propVars, netVars, imgVars, shVars>>

\* A second build(): of clones of the same inputs, or of the parts of the
\* aggregate just built (its texture kept or left out).
Rebuild ==
    /\ stage = "built"
    /\ runs = "first"
    /\ \E src \in {"same", "parts", "parts-no-texture"} :
        LET b == IF src = "same" THEN bld
                 ELSE [metadata |-> bld.metadata,
                       texture |-> IF src = "parts" THEN out[1].texture ELSE None,
                       image |-> out[1].image,
                       geometries |-> Some(out[1].geometries),
                       material |-> Some(out[1].material),
                       object |-> Some(out[1].object)]
        IN  /\ prevBld' = bld
            /\ prevOut' = out
            /\ bld' = b
            /\ inp' = Some(Builder__build(b, nextUuid))
            /\ out' = Some(build(b, nextUuid))
            /\ nextUuid' = nextUuid + buildMints(b)
            /\ runs' = src
    /\ UNCHANGED <<stage, geoms>>
    /\ UNCHANGED <<propVars, netVars, imgVars, shVars>>

AsmNext ==
    \/ SetTexture
    \/ SetImage
    \/ NewGeometry
    \/ SetGeometries
    \/ SetMaterial
    \/ SetObject
    \/ SetMetadata
    \/ Build
    \/ Rebuild

(***************************************************************************)
(* SetPropertyData::new, its encoding and its decoding.                    *)
(***************************************************************************)
MaxCoord == 1

Coords == 0..MaxCoord
Vector3s == {<<x, y, z>> : x \in Coords, y \in Coords, z \in Coords}
Vector4s == {<<x, y, z, w>> : x \in Coords, y \in Coords, z \in Coords, w \in Coords}

\* enum PropertyType, in the order of its declaration.
PropertyVariants ==
    <<"Visible", "Position", "Quaternion", "Scale", "Color", "Opacity",
      "ModulatedOpacity", "TopColor", "BottomColor">>

\* The shape of the payload each variant is declared with.
PayloadShape(variant) ==
    CASE variant = "Visible" -> "bool"
      [] variant \in {"Position", "Scale", "TopColor", "BottomColor"} -> "vec3"
      [] variant \in {"Quaternion", "Color"} -> "vec4"
      [] variant \in {"Opacity", "ModulatedOpacity"} -> "f64"

PayloadsOf(shape) ==
    CASE shape = "bool" -> BOOLEAN
      [] shape = "vec3" -> Vector3s
      [] shape = "vec4" -> Vector4s
      [] shape = "f64" -> Coords

PropertyValues ==
    UNION {{[variant |-> PropertyVariants[k], value |-> v] :
                v \in PayloadsOf(PayloadShape(PropertyVariants[k]))} : k \in 1..9}

Paths == {"/robot/link0", "/Axes"}


\* A variant of PropertyName with one arm copied from its neighbour.
PropertyName_CopiedArm(property) ==
    CASE property.variant = "Visible" -> "visible"
      [] property.variant = "Position" -> "position"
      [] property.variant = "Quaternion" -> "quaternion"
      [] property.variant = "Scale" -> "scale"
      [] property.variant = "Color" -> "color"
      [] property.variant = "Opacity" -> "opacity"
      [] property.variant = "ModulatedOpacity" -> "opacity"
      [] property.variant = "TopColor" -> "top_color"
      [] property.variant = "BottomColor" -> "bottom_color"

\* The match of SetPropertyData::new.
PropertyName(property) ==
    CASE property.variant = "Visible" -> "visible"
      [] property.variant = "Position" -> "position"
      [] property.variant = "Quaternion" -> "quaternion"
      [] property.variant = "Scale" -> "scale"
      [] property.variant = "Color" -> "color"
      [] property.variant = "Opacity" -> "opacity"
      [] property.variant = "ModulatedOpacity" -> "modulated_opacity"
      [] property.variant = "TopColor" -> "top_color"
      [] property.variant = "BottomColor" -> "bottom_color"

SetPropertyData_new(path, property) ==
    [path |-> path,
     request_type |-> "set_property",
     property |-> PropertyName(property),
     value |-> property]

\* Serialize of the untagged PropertyType: the payload alone, in its own
\* MessagePack shape, with nothing that names the variant.
Serialize_PropertyType(property) ==
    [shape |-> PayloadShape(property.variant), data |-> property.value]

\* A variant that leaves the discriminant under its Rust field name.
Serialize_SetPropertyData_NoRename(d) ==
    [path |-> d.path, request_type |-> d.request_type,
     property |-> d.property, value |-> Serialize_PropertyType(d.value)]

\* to_vec_named of a SetPropertyData: a map keyed by the (renamed) fields.
Serialize_SetPropertyData(d) ==
    [path |-> d.path, type |-> d.request_type, property |-> d.property,
     value |-> Serialize_PropertyType(d.value)]

\* Deserialize of the untagged PropertyType: the first variant, in the order
\* of declaration, whose payload has the shape found.
Deserialize_PropertyType(w) ==
    LET k == CHOOSE i \in 1..9 :
                /\ PayloadShape(PropertyVariants[i]) = w.shape
                /\ \A j \in 1..(i - 1) : PayloadShape(PropertyVariants[j]) /= w.shape
    IN  [variant |-> PropertyVariants[k], value |-> w.data]

Deserialize_SetPropertyData(w) ==
    [path |-> w.path, request_type |-> w.type, property |-> w.property,
     value |-> Deserialize_PropertyType(w.value)]

PropIdle ==
    /\ prop = [path |-> "/Axes", property |-> [variant |-> "Visible", value |-> FALSE]]
    /\ propData = None
    /\ propWire = None
    /\ propBack = None

\* Any path and any property value may be given.
PropInit ==
    /\ prop \in [path : Paths, property : PropertyValues]
    /\ propData = None
    /\ propWire = None
    /\ propBack = None

PropNew ==
    /\ propData = None
    /\ propData' = Some(SetPropertyData_new(prop.path, prop.property))
    /\ UNCHANGED <<prop, propWire, propBack>>
    /\ UNCHANGED <<asmVars, netVars, imgVars, shVars>>

PropEncode ==
    /\ propData /= None
    /\ propWire = None
    /\ propWire' = Some(Serialize_SetPropertyData(propData[1]))
    /\ UNCHANGED <<prop, propData, propBack>>
    /\ UNCHANGED <<asmVars, netVars, imgVars, shVars>>

PropDecode ==
    /\ propWire /= None
    /\ propBack = None
    /\ propBack' = Some(Deserialize_SetPropertyData(propWire[1]))
    /\ UNCHANGED <<prop, propData, propWire>>
    /\ UNCHANGED <<asmVars, netVars, imgVars, shVars>>

PropNext ==
    \/ PropNew
    \/ PropEncode
    \/ PropDecode

(***************************************************************************)
(* The Meshcat client: four operations over one REQ socket.                *)
(***************************************************************************)
MaxCalls == 2

\* The data each operation constructs before encoding it.
SetObjectData(path, object) ==
    [object |-> object, path |-> path, request_type |-> "set_object"]

\* A variant that stores the matrix with rows and columns exchanged.
SetTransformData_new_Transposed(matrix, path) ==
    [matrix |-> [i \in 1..4 |-> [j \in 1..4 |-> to_homogeneous(matrix)[j][i]]],
     path |-> path, request_type |-> "set_transform"]

SetTransformData_new(matrix, path) ==
    [matrix |-> to_homogeneous(matrix), path |-> path,
     request_type |-> "set_transform"]


\* A variant of DeleteData with the discriminant of another operation.
DeleteData_WrongType(path) == [path |-> path, request_type |-> "set_object"]

DeleteData(path) == [path |-> path, request_type |-> "delete"]

\* nalgebra writes a Matrix4 as its 16 elements, column after column.
Serialize_Matrix4(m) ==
    [k \in 1..16 |-> m[((k - 1) % 4) + 1][((k - 1) \div 4) + 1]]

\* #[serde(tag = "type")] of GeometryType, with the renamed variants.
GeometryTag(kind) ==
    CASE kind = "Box" -> "BoxGeometry"
      [] kind = "Cylinder" -> "CylinderGeometry"
      [] kind = "Cone" -> "ConeGeometry"

\* Geometry: the origin is skipped, the variant is flattened into the map.
Serialize_Geometry(g) == [uuid |-> g.uuid, type |-> GeometryTag(g.geometry)]

\* An Object without children of its own (the children build() makes).
Serialize_Leaf(o) ==
    [uuid |-> o.uuid, material |-> o.material, geometry |-> o.geometry,
     children |-> <<>>, matrix |-> Serialize_Matrix4(o.matrix),
     type |-> o.object_type]

Serialize_Object(o) ==
    [uuid |-> o.uuid, material |-> o.material, geometry |-> o.geometry,
     children |-> [i \in 1..Len(o.children) |-> Serialize_Leaf(o.children[i])],
     matrix |-> Serialize_Matrix4(o.matrix),
     type |-> o.object_type]

\* LumpedObject: texture, image and material go out as arrays of one
\* element under plural names (an absent texture or image as no element).
Serialize_LumpedObject(lo) ==
    [metadata |-> [type |-> lo.metadata.metadata_type,
                   version |-> lo.metadata.version],
     textures |-> lo.texture,
     images |-> lo.image,
     geometries |-> [i \in 1..Len(lo.geometries) |->
                        Serialize_Geometry(lo.geometries[i])],
     materials |-> <<lo.material>>,
     object |-> Serialize_Object(lo.object)]

\* rmp_serde::encode::to_vec_named of the data of operation op.
to_vec_named(op, d) ==
    CASE op = "SetObject" ->
            [object |-> Serialize_LumpedObject(d.object), path |-> d.path,
             type |-> d.request_type]
      [] op = "SetTransform" ->
            [matrix |-> Serialize_Matrix4(d.matrix), path |-> d.path,
             type |-> d.request_type]
      [] op = "SetProperty" -> Serialize_SetPropertyData(d)
      [] op = "Delete" -> [path |-> d.path, type |-> d.request_type]

\* A message without the path part.
Frames_NoPath(d, b) == <<d.request_type, b>>

\* The three frames handed to send_multipart.
Frames(d, b) == <<d.request_type, d.path, b>>

\* What the modelled callers pass to the operations.
SampleObjects ==
    {build([EmptyBuilder EXCEPT !.geometries = Some(<<Geometry_new(k, 1)>>)], 2) :
        k \in {"Box", "Cylinder"}}

SamplePoses ==
    {Isometry3_identity,
     Isometry3_from_parts(<<1, 0, 0>>, Matrix3_identity),
     Isometry3_from_parts(<<4, 5, 6>>, Matrix3_identity),
     PoseA}

SampleProperties ==
    {[variant |-> "Visible", value |-> FALSE],
     [variant |-> "Quaternion", value |-> <<0, 0, 0, 1>>],
     [variant |-> "Opacity", value |-> 1]}

\* What the remote may answer: text, or bytes that are not UTF-8.
Replies == {"ok", "not-utf8"}

\* The endpoints the modelled callers hand to Meshcat::new.
Endpoints == {"tcp://127.0.0.1:6000", "tcp://10.0.0.2:6000"}

\* Before Meshcat::new there is no client and no socket.
NetInit ==
    /\ pc = "start"
    /\ endpoint = None
    /\ call = None
    /\ buf = None
    /\ sock = "none"
    /\ wire = <<>>
    /\ inbox = <<>>
    /\ served = 0
    /\ ret = "none"
    /\ ncalls = 0

\* socket.connect(endpoint) returned Ok: new() returns the client.
Connected(e) ==
    /\ pc' = "idle"
    /\ endpoint' = Some(e)
    /\ sock' = "ready"
    /\ UNCHANGED <<call, buf, wire, inbox, served, ret, ncalls>>
    /\ UNCHANGED <<asmVars, propVars, imgVars, shVars>>

\* A new() that hands out a client although connect failed.
ConnectFailed_Swallowed(e) ==
    /\ pc' = "idle"
    /\ endpoint' = Some(e)
    /\ sock' = "unconnected"
    /\ UNCHANGED <<call, buf, wire, inbox, served, ret, ncalls>>
    /\ UNCHANGED <<asmVars, propVars, imgVars, shVars>>

\* socket.connect(endpoint) returned Err: unwrap_or_else panics, and new()
\* returns nothing.
ConnectFailed(e) ==
    /\ pc' = "panicked"
    /\ ret' = "panic"
    /\ UNCHANGED <<endpoint, call, buf, sock, wire, inbox, served, ncalls>>
    /\ UNCHANGED <<asmVars, propVars, imgVars, shVars>>

Meshcat_new ==
    /\ pc = "start"
    /\ \E e \in Endpoints : Connected(e) \/ ConnectFailed(e)

\* The start of a call: the arguments and the data the operation
\* constructed from them are kept.
Begin(op, path, arg, d) ==
    /\ call' = Some([op |-> op, path |-> path, arg |-> arg, data |-> d])
    /\ buf' = None
    /\ pc' = "encode"
    /\ ret' = "none"
    /\ ncalls' = ncalls + 1
    /\ UNCHANGED <<endpoint, sock, wire, inbox, served>>
    /\ UNCHANGED <<asmVars, propVars, imgVars, shVars>>

set_object ==
    /\ pc = "idle"
    /\ ncalls < MaxCalls
    /\ \E path \in Paths, object \in SampleObjects :
        Begin("SetObject", path, object, SetObjectData(path, object))

set_transform ==
    /\ pc = "idle"
    /\ ncalls < MaxCalls
    /\ \E path \in Paths, matrix \in SamplePoses :
        Begin("SetTransform", path, matrix, SetTransformData_new(matrix, path))

set_property ==
    /\ pc = "idle"
    /\ ncalls < MaxCalls
    /\ \E path \in Paths, property \in SampleProperties :
        Begin("SetProperty", path, property,
              SetPropertyData_new(path, property))

delete ==
    /\ pc = "idle"
    /\ ncalls < MaxCalls
    /\ \E path \in Paths : Begin("Delete", path, None, DeleteData(path))

\* let buf = to_vec_named(&data)?  -- the encoding succeeds ...
EncodeOk ==
    /\ pc = "encode"
    /\ buf' = Some(to_vec_named(call[1].op, call[1].data))
    /\ pc' = "send"
    /\ UNCHANGED <<endpoint, call, sock, wire, inbox, served, ret, ncalls>>
    /\ UNCHANGED <<asmVars, propVars, imgVars, shVars>>

\* ... or fails, and the operation returns the error.
EncodeErr ==
    /\ pc = "encode"
    /\ pc' = "idle"
    /\ ret' = "Err:encode"
    /\ UNCHANGED <<endpoint, call, buf, sock, wire, inbox, served, ncalls>>
    /\ UNCHANGED <<asmVars, propVars, imgVars, shVars>>

\* The message as it leaves the socket: the frames, and for reference the
\* endpoint, the call that sent it and that call's arguments.
Sent ==
    [frames |-> Frames(call[1].data, buf[1]),
     to |-> endpoint[1],
     by |-> call[1].op,
     path |-> call[1].path,
     data |-> call[1].data,
     callNo |-> ncalls]

\* A socket that takes a request whatever its state (not a REQ socket).
SendOk_AnyState ==
    /\ pc = "send"
    /\ sock \in {"ready", "awaiting"}
    /\ wire' = Append(wire, Sent)
    /\ sock' = "awaiting"
    /\ pc' = "recv"
    /\ UNCHANGED <<endpoint, call, buf, inbox, served, ret, ncalls>>
    /\ UNCHANGED <<asmVars, propVars, imgVars, shVars>>

\* send_multipart(..)?  -- a REQ socket accepts a request only when ready.
SendOk ==
    /\ pc = "send"
    /\ sock = "ready"
    /\ wire' = Append(wire, Sent)
    /\ sock' = "awaiting"
    /\ pc' = "recv"
    /\ UNCHANGED <<endpoint, call, buf, inbox, served, ret, ncalls>>
    /\ UNCHANGED <<asmVars, propVars, imgVars, shVars>>

\* The send fails: the socket is awaiting a reply (EFSM), or the transport
\* reports an error.  Nothing is sent and the operation returns the error.
SendErr ==
    /\ pc = "send"
    /\ pc' = "idle"
    /\ ret' = "Err:send"
    /\ UNCHANGED <<endpoint, call, buf, sock, wire, inbox, served, ncalls>>
    /\ UNCHANGED <<asmVars, propVars, imgVars, shVars>>

\* The remote answers the request it has not answered yet.
ServerReply ==
    /\ served < Len(wire)
    /\ \E r \in Replies :
        inbox' = Append(inbox, [text |-> r, for |-> served + 1])
    /\ served' = served + 1
    /\ UNCHANGED <<pc, endpoint, call, buf, sock, wire, ret, ncalls>>
    /\ UNCHANGED <<asmVars, propVars, imgVars, shVars>>

\* A receive that gives up when no reply is there.
RecvOk_TimedOut ==
    /\ pc = "recv"
    /\ inbox' = IF inbox = <<>> THEN inbox ELSE Tail(inbox)
    /\ sock' = "ready"
    /\ IF inbox /= <<>> /\ Head(inbox).text = "not-utf8"
       THEN pc' = "panicked" /\ ret' = "panic"
       ELSE pc' = "idle" /\ ret' = "Ok"
    /\ UNCHANGED <<endpoint, call, buf, wire, served, ncalls>>
    /\ UNCHANGED <<asmVars, propVars, imgVars, shVars>>

\* recv_string(0)? then message.unwrap(): the call blocks until a reply is
\* there and reads it; bytes that are not UTF-8 make unwrap() panic.
RecvOk ==
    /\ pc = "recv"
    /\ inbox /= <<>>
    /\ inbox' = Tail(inbox)
    /\ sock' = "ready"
    /\ IF Head(inbox).text = "not-utf8"
       THEN pc' = "panicked" /\ ret' = "panic"
       ELSE pc' = "idle" /\ ret' = "Ok"
    /\ UNCHANGED <<endpoint, call, buf, wire, served, ncalls>>
    /\ UNCHANGED <<asmVars, propVars, imgVars, shVars>>

\* A failed receive after which the socket takes requests again.
RecvErr_Resets ==
    /\ pc = "recv"
    /\ pc' = "idle"
    /\ ret' = "Err:recv"
    /\ sock' = "ready"
    /\ UNCHANGED <<endpoint, call, buf, wire, inbox, served, ncalls>>
    /\ UNCHANGED <<asmVars, propVars, imgVars, shVars>>

\* The receive fails: the operation returns the error, and the socket is
\* still awaiting the reply.
RecvErr ==
    /\ pc = "recv"
    /\ pc' = "idle"
    /\ ret' = "Err:recv"
    /\ UNCHANGED <<endpoint, call, buf, sock, wire, inbox, served, ncalls>>
    /\ UNCHANGED <<asmVars, propVars, imgVars, shVars>>

NetNext ==
    \/ Meshcat_new
    \/ set_object
    \/ set_transform
    \/ set_property
    \/ delete
    \/ EncodeOk
    \/ EncodeErr
    \/ SendOk
    \/ SendErr
    \/ ServerReply
    \/ RecvOk
    \/ RecvErr

(***************************************************************************)
(* Image::new.  A path is a sequence of characters; the String being      *)
(* filled is a sequence of pieces: the media-type prefix, then the base64  *)
(* text of the bytes read.                                                 *)
(***************************************************************************)
MaxPathLen == 4

Chars == {"p", "n", "g", ".", "/"}

ImagePaths == UNION {[1..n -> Chars] : n \in 0..MaxPathLen}

\* What std::fs::read may find in a file.
FileContents == {<<>>, <<137, 80>>}

\* str::split(sep): the pieces between the separators, at least one.
RECURSIVE split(_, _)
split(s, sep) ==
    IF \E i \in 1..Len(s) : s[i] = sep
    THEN LET i == CHOOSE k \in 1..Len(s) :
                      s[k] = sep /\ \A j \in 1..(k - 1) : s[j] /= sep
         IN <<SubSeq(s, 1, i - 1)>> \o split(SubSeq(s, i + 1, Len(s)), sep)
    ELSE <<s>>

\* The piece before the first separator instead of the one after the last.
file_extension_FirstPiece(path) ==
    LET pieces == split(path, ".")
    IN IF pieces = <<>>
       THEN [ok |-> FALSE, value |-> <<>>]
       ELSE [ok |-> TRUE, value |-> pieces[1]]

\* utils::file_extension: path.split('.').last().ok_or(..)
file_extension(path) ==
    LET pieces == split(path, ".")
    IN IF pieces = <<>>
       THEN [ok |-> FALSE, value |-> <<>>]
       ELSE [ok |-> TRUE, value |-> pieces[Len(pieces)]]

Png == <<"p", "n", "g">>

\* general_purpose::STANDARD.encode_string(bytes, &mut buf) appends the
\* base64 text of the bytes; the text is kept as a piece naming the bytes.
encode_string(bytes, b) == Append(b, [base64 |-> bytes])

\* No Image::new is going on.
ImgIdle ==
    /\ imgPath = <<>>
    /\ imgPc = "idle"
    /\ imgBuf = <<>>
    /\ imgReads = 0
    /\ imgPanic = ""
    /\ img = None

\* Image::new is called with any path.
ImgInit ==
    /\ imgPath \in ImagePaths
    /\ imgPc = "start"
    /\ imgBuf = <<>>
    /\ imgReads = 0
    /\ imgPanic = ""
    /\ img = None

\* Ok("png") => buf.push_str("data:image/png;base64,")
MatchPng ==
    /\ imgPc = "start"
    /\ file_extension(imgPath) = [ok |-> TRUE, value |-> Png]
    /\ imgBuf' = Append(imgBuf, "data:image/png;base64,")
    /\ imgPc' = "png"
    /\ UNCHANGED <<imgPath, imgReads, imgPanic, img>>
    /\ UNCHANGED <<asmVars, propVars, netVars, shVars>>

\* _ => panic!("Unsupported image type")
MatchOther ==
    /\ imgPc = "start"
    /\ file_extension(imgPath) /= [ok |-> TRUE, value |-> Png]
    /\ imgPc' = "panicked"
    /\ imgPanic' = "Unsupported image type"
    /\ UNCHANGED <<imgPath, imgBuf, imgReads, img>>
    /\ UNCHANGED <<asmVars, propVars, netVars, shVars>>

\* std::fs::read(url) succeeds: the bytes are encoded after the prefix and
\* the Image is returned with a new uuid.
ReadOk ==
    /\ imgPc = "png"
    /\ \E bytes \in FileContents :
        /\ imgBuf' = encode_string(bytes, imgBuf)
        /\ img' = Some([uuid |-> nextUuid, url |-> imgBuf'])
    /\ imgReads' = imgReads + 1
    /\ nextUuid' = nextUuid + 1
    /\ imgPc' = "done"
    /\ UNCHANGED <<imgPath, imgPanic>>
    /\ UNCHANGED <<stage, geoms, bld, inp, out, prevBld, prevOut, runs>>
    /\ UNCHANGED <<propVars, netVars, shVars>>

\* std::fs::read(url) fails: panic!("Unable to load file")
ReadErr ==
    /\ imgPc = "png"
    /\ imgReads' = imgReads + 1
    /\ imgPc' = "panicked"
    /\ imgPanic' = "Unable to load file"
    /\ UNCHANGED <<imgPath, imgBuf, img>>
    /\ UNCHANGED <<asmVars, propVars, netVars, shVars>>

Image_new ==
    \/ MatchPng
    \/ MatchOther
    \/ ReadOk
    \/ ReadErr

(***************************************************************************)
(* One Meshcat client used by two callers.  zmq sockets are not thread     *)
(* safe: callers that are not kept apart race inside send_multipart,       *)
(* between the socket's test of its state and its update of it.  sharing   *)
(* says how the callers are kept apart: "single" (only caller "a" calls),  *)
(* "mutex" (a lock is held over each whole operation) or "none".           *)
(***************************************************************************)
MaxSharedCalls == 2

Callers == {"a", "b"}

SharingModes == {"single", "mutex", "none"}

CallerIdle == [at |-> "idle", n |-> 0, got |-> 0, ret |-> "none"]

ChanReady == [sock |-> "ready", wire |-> <<>>, inbox |-> <<>>, served |-> 0]

\* No shared client.
ShIdle ==
    /\ sharing = "off"
    /\ cpc = [c \in Callers |-> CallerIdle]
    /\ chan = ChanReady
    /\ holder = "nobody"

\* A connected client in the hands of the callers.
ShInit ==
    /\ sharing \in SharingModes
    /\ cpc = [c \in Callers |-> CallerIdle]
    /\ chan = ChanReady
    /\ holder = "nobody"

\* The end of an operation: under "mutex" the lock is given back.
Release == holder' = "nobody"

\* A caller enters one of the four operations; under "mutex" it takes the
\* lock first.
ShBegin(c) ==
    /\ sharing \in SharingModes
    /\ sharing = "single" => c = "a"
    /\ cpc[c].at = "idle"
    /\ cpc[c].n < MaxSharedCalls
    /\ IF sharing = "mutex"
       THEN holder = "nobody" /\ holder' = c
       ELSE UNCHANGED holder
    /\ cpc' = [cpc EXCEPT ![c] = [at |-> "encode", n |-> @.n + 1,
                                  got |-> 0, ret |-> "none"]]
    /\ UNCHANGED <<sharing, chan>>
    /\ UNCHANGED <<asmVars, propVars, netVars, imgVars>>

\* let buf = to_vec_named(&data)?
ShEncodeOk(c) ==
    /\ cpc[c].at = "encode"
    /\ cpc' = [cpc EXCEPT ![c].at = "send"]
    /\ UNCHANGED <<sharing, chan, holder>>
    /\ UNCHANGED <<asmVars, propVars, netVars, imgVars>>

ShEncodeErr(c) ==
    /\ cpc[c].at = "encode"
    /\ cpc' = [cpc EXCEPT ![c].at = "idle", ![c].ret = "Err:encode"]
    /\ Release
    /\ UNCHANGED <<sharing, chan>>
    /\ UNCHANGED <<asmVars, propVars, netVars, imgVars>>

\* A socket that does not test its state before taking a request.
ShSendCheck_NoTest(c) ==
    /\ cpc[c].at = "send"
    /\ cpc' = [cpc EXCEPT ![c].at = "sending"]
    /\ UNCHANGED holder
    /\ UNCHANGED <<sharing, chan>>
    /\ UNCHANGED <<asmVars, propVars, netVars, imgVars>>

\* send_multipart(..)?, first half: the REQ socket tests its state; when a
\* reply is pending the send is refused (EFSM) and the operation returns.
ShSendCheck(c) ==
    /\ cpc[c].at = "send"
    /\ IF chan.sock = "ready"
       THEN /\ cpc' = [cpc EXCEPT ![c].at = "sending"]
            /\ UNCHANGED holder
       ELSE /\ cpc' = [cpc EXCEPT ![c].at = "idle", ![c].ret = "Err:send"]
            /\ Release
    /\ UNCHANGED <<sharing, chan>>
    /\ UNCHANGED <<asmVars, propVars, netVars, imgVars>>

\* send_multipart(..)?, second half: the message leaves and the socket
\* awaits the reply.
ShSendDone(c) ==
    /\ cpc[c].at = "sending"
    /\ chan' = [chan EXCEPT !.wire = Append(@, [by |-> c, callNo |-> cpc[c].n]),
                            !.sock = "awaiting"]
    /\ cpc' = [cpc EXCEPT ![c].at = "recv"]
    /\ UNCHANGED <<sharing, holder>>
    /\ UNCHANGED <<asmVars, propVars, netVars, imgVars>>

\* The transport reports an error: nothing leaves.
ShSendErr(c) ==
    /\ cpc[c].at = "sending"
    /\ cpc' = [cpc EXCEPT ![c].at = "idle", ![c].ret = "Err:send"]
    /\ Release
    /\ UNCHANGED <<sharing, chan>>
    /\ UNCHANGED <<asmVars, propVars, netVars, imgVars>>

\* The remote answers the requests in the order they came.
ShServerReply ==
    /\ chan.served < Len(chan.wire)
    /\ \E r \in Replies :
        chan' = [chan EXCEPT
                    !.inbox = Append(@, [text |-> r, for |-> chan.served + 1]),
                    !.served = @ + 1]
    /\ UNCHANGED <<sharing, cpc, holder>>
    /\ UNCHANGED <<asmVars, propVars, netVars, imgVars>>

\* recv_string(0)? then message.unwrap(): the caller reads the reply that is
\* first on the socket.
ShRecvOk(c) ==
    /\ cpc[c].at = "recv"
    /\ chan.inbox /= <<>>
    /\ chan' = [chan EXCEPT !.inbox = Tail(@), !.sock = "ready"]
    /\ cpc' = [cpc EXCEPT
                ![c].got = Head(chan.inbox).for,
                ![c].at = IF Head(chan.inbox).text = "not-utf8"
                          THEN "panicked" ELSE "idle",
                ![c].ret = IF Head(chan.inbox).text = "not-utf8"
                           THEN "panic" ELSE "Ok"]
    /\ Release
    /\ UNCHANGED sharing
    /\ UNCHANGED <<asmVars, propVars, netVars, imgVars>>

ShRecvErr(c) ==
    /\ cpc[c].at = "recv"
    /\ cpc' = [cpc EXCEPT ![c].at = "idle", ![c].ret = "Err:recv"]
    /\ Release
    /\ UNCHANGED <<sharing, chan>>
    /\ UNCHANGED <<asmVars, propVars, netVars, imgVars>>

ShNext ==
    \/ \E c \in Callers : ShBegin(c)
    \/ \E c \in Callers : ShEncodeOk(c)
    \/ \E c \in Callers : ShEncodeErr(c)
    \/ \E c \in Callers : ShSendCheck(c)
    \/ \E c \in Callers : ShSendDone(c)
    \/ \E c \in Callers : ShSendErr(c)
    \/ ShServerReply
    \/ \E c \in Callers : ShRecvOk(c)
    \/ \E c \in Callers : ShRecvErr(c)

(***************************************************************************)
(* The specifications: of the builder's caller, of SetPropertyData::new on *)
(* any input, of the client, of Image::new on any path, and of two callers *)
(* of one client.                                                          *)
(***************************************************************************)
Init == AsmInit /\ PropIdle /\ NetInit /\ ImgIdle /\ ShIdle

Next == AsmNext

Spec == Init /\ [][Next]_vars

InitProperty == AsmInit /\ PropInit /\ NetInit /\ ImgIdle /\ ShIdle

SpecProperty == InitProperty /\ [][PropNext]_vars

SpecClient == Init /\ [][NetNext]_vars

InitImage == AsmInit /\ PropIdle /\ NetInit /\ ImgInit /\ ShIdle

SpecImage == InitImage /\ [][Image_new]_vars

InitShared == AsmInit /\ PropIdle /\ NetInit /\ ImgIdle /\ ShInit

SpecShared == InitShared /\ [][ShNext]_vars

(***************************************************************************)
(* Claims about build().  Built holds once build() has returned; lo is the *)
(* aggregate it returned, given is the geometry list handed to the         *)
(* builder.                                                                *)
(***************************************************************************)
Built == out /= None

ChildIds(obj) == {obj.children[i].uuid : i \in 1..Len(obj.children)}

\* C1: for a non-empty list of N geometries, the root of the aggregate has
\* exactly N children, in input order: child i refers to geometry i and to
\* the aggregate's material, whatever children the supplied root had.
C1_ChildrenFollowGeometries ==
    (Built /\ Len(bld.geometries[1]) >= 1) =>
        LET lo == out[1]
            given == bld.geometries[1]
        IN  /\ Len(lo.object.children) = Len(given)
            /\ \A i \in 1..Len(given) :
                /\ lo.object.children[i].geometry = Some(given[i].uuid)
                /\ lo.object.children[i].material = Some(lo.material.uuid)

\* C1 witness: two geometries were assembled under a root that was supplied
\* with one child of its own.
C1_Witness ==
    /\ Built
    /\ Len(bld.geometries[1]) = 2
    /\ bld.object /= None
    /\ Len(bld.object[1].children) = 1
    /\ Len(out[1].object.children) = 2

\* C2 (as claimed): build() with an empty geometry list returns no aggregate.
C2_EmptySceneRefused ==
    (stage = "built" /\ bld.geometries = Some(<<>>)) => out = None

C4_MapFollowsTexture ==
    (Built /\ Len(bld.geometries[1]) >= 1) =>
        IF out[1].texture /= None
        THEN out[1].material.map = Some(out[1].texture[1].uuid)
        ELSE out[1].material.map = None

\* C5: the root's material reference is the aggregate material's identifier,
\* whatever reference the supplied root carried.
C5_RootRefersToMaterial ==
    Built =>
        /\ out[1].object.material = Some(out[1].material.uuid)
        /\ out[1].material.uuid = inp[1].material.uuid

\* C5 witness: the supplied root carried a reference to something else.
C5_Witness ==
    /\ Built
    /\ bld.object /= None
    /\ bld.object[1].material /= None
    /\ bld.object[1].material /= Some(inp[1].material.uuid)

\* The homogeneous matrix of origin o followed by a quarter turn about X,
\* written out: the columns of the rotation block become (c1, c3, -c2).
QuarterTurnedX(o) ==
    [i \in 1..4 |-> [j \in 1..4 |->
        IF i = 4 THEN (IF j = 4 THEN 1 ELSE 0)
        ELSE IF j = 1 THEN o.R[i][1]
        ELSE IF j = 2 THEN o.R[i][3]
        ELSE IF j = 3 THEN 0 - o.R[i][2]
        ELSE o.t[i]]]

\* The homogeneous matrix of origin o, written out.
Homogeneous(o) ==
    << <<o.R[1][1], o.R[1][2], o.R[1][3], o.t[1]>>,
       <<o.R[2][1], o.R[2][2], o.R[2][3], o.t[2]>>,
       <<o.R[3][1], o.R[3][2], o.R[3][3], o.t[3]>>,
       <<0, 0, 0, 1>> >>

\* C6: a cylinder's child has the pose origin * rotate_x(90 degrees), the
\* child of any other geometry has exactly the origin; the root's pose
\* plays no part.
C6_ChildPose ==
    Built =>
        \A i \in 1..Len(bld.geometries[1]) :
            LET g == bld.geometries[1][i]
            IN  out[1].object.children[i].matrix =
                    IF g.geometry = "Cylinder" THEN QuarterTurnedX(g.origin)
                    ELSE Homogeneous(g.origin)

\* C6 witness: a cylinder and a cone, both with a turned and shifted origin,
\* were assembled under a root whose own pose is not the identity.
C6_Witness ==
    /\ Built
    /\ Len(bld.geometries[1]) = 2
    /\ bld.geometries[1][1].geometry = "Cylinder"
    /\ bld.geometries[1][1].origin = PoseA
    /\ bld.geometries[1][2].geometry = "Cone"
    /\ bld.geometries[1][2].origin = PoseA
    /\ bld.object /= None
    /\ bld.object[1].matrix /= to_homogeneous(Isometry3_identity)

\* C7: build() changes no identifier: every supplied entity comes back with
\* the identifier its factory gave it, and a defaulted material or root
\* keeps the identifier its default was constructed with.
C7_IdentifiersKept ==
    Built =>
        LET lo == out[1]
        IN  /\ Len(lo.geometries) = Len(bld.geometries[1])
            /\ \A i \in 1..Len(lo.geometries) :
                lo.geometries[i].uuid = bld.geometries[1][i].uuid
            /\ (bld.texture /= None) =>
                (lo.texture /= None /\ lo.texture[1].uuid = bld.texture[1].uuid)
            /\ (bld.image /= None) =>
                (lo.image /= None /\ lo.image[1].uuid = bld.image[1].uuid)
            /\ (bld.material /= None) => lo.material.uuid = bld.material[1].uuid
            /\ (bld.object /= None) => lo.object.uuid = bld.object[1].uuid
            /\ lo.material.uuid = inp[1].material.uuid
            /\ lo.object.uuid = inp[1].object.uuid

\* C7 witness: every kind of entity was supplied and assembled.
C7_Witness ==
    /\ Built
    /\ bld.texture /= None
    /\ bld.image /= None
    /\ bld.material /= None
    /\ bld.object /= None
    /\ Len(bld.geometries[1]) = 2

(***************************************************************************)
(* Two runs of build().                                                    *)
(***************************************************************************)
\* The aggregate with its children's identifiers blanked.
SansChildIds(lo) ==
    [lo EXCEPT !.object.children =
        [i \in 1..Len(lo.object.children) |->
            [lo.object.children[i] EXCEPT !.uuid = 0]]]

\* The aggregate with every identifier minted inside build() blanked: the
\* children's and, for a material or root left unset in builder b, the
\* defaulted entity's identifier and the references to it.
SansMintedIds(lo, b) ==
    LET noMat == b.material = None
        noObj == b.object = None
    IN  [lo EXCEPT
            !.material.uuid = IF noMat THEN 0 ELSE @,
            !.object.uuid = IF noObj THEN 0 ELSE @,
            !.object.material = IF noMat THEN None ELSE @,
            !.object.children =
                [i \in 1..Len(lo.object.children) |->
                    [lo.object.children[i] EXCEPT
                        !.uuid = 0,
                        !.material = IF noMat THEN None ELSE @]]]

\* The identifiers of the entities build() started from.
EntityIds(in) ==
    {in.geometries[i].uuid : i \in 1..Len(in.geometries)}
    \cup {in.material.uuid, in.object.uuid}
    \cup ChildIds(in.object)
    \cup (IF in.texture = None THEN {} ELSE {in.texture[1].uuid})
    \cup (IF in.image = None THEN {} ELSE {in.image[1].uuid})

\* The children of the last run have pairwise distinct identifiers, none of
\* them an input entity's and none a child's of the run before.
FreshChildren ==
    Built =>
        /\ Cardinality(ChildIds(out[1].object)) = Len(out[1].object.children)
        /\ ChildIds(out[1].object) \cap EntityIds(inp[1]) = {}
        /\ (prevOut /= None) =>
            ChildIds(out[1].object) \cap ChildIds(prevOut[1].object) = {}

\* C8 (as claimed): two runs on the same inputs (of at least one geometry)
\* agree in everything but the children's identifiers, which are fresh.
C8_SameButChildIds ==
    /\ (runs = "same" /\ Len(bld.geometries[1]) >= 1) =>
        SansChildIds(out[1]) = SansChildIds(prevOut[1])
    /\ FreshChildren

\* C8 (amended): two runs on the same inputs agree in everything but the
\* identifiers minted in the run - the children's and those of a material or
\* root object that was left to its default - and the children's
\* identifiers are fresh.
C8_SameButMintedIds ==
    /\ (runs = "same") =>
        SansMintedIds(out[1], bld) = SansMintedIds(prevOut[1], prevBld)
    /\ FreshChildren

\* C8 witness: the same inputs, a cylinder among two geometries and a
\* texture with an image, were assembled twice.
C8_Witness ==
    /\ runs = "same"
    /\ Len(bld.geometries[1]) = 2
    /\ bld.geometries[1][2].geometry = "Cylinder"
    /\ bld.texture /= None
    /\ bld.image /= None
    /\ out[1].object.children /= prevOut[1].object.children

(***************************************************************************)
(* Claims about SetPropertyData::new and about the client's messages.      *)
(***************************************************************************)
\* The nine (variant, name, shape) triples of the claim.
PropertyTable ==
    {<<"Visible", "visible", "bool">>,
     <<"Position", "position", "vec3">>,
     <<"Quaternion", "quaternion", "vec4">>,
     <<"Scale", "scale", "vec3">>,
     <<"Color", "color", "vec4">>,
     <<"Opacity", "opacity", "f64">>,
     <<"ModulatedOpacity", "modulated_opacity", "f64">>,
     <<"TopColor", "top_color", "vec3">>,
     <<"BottomColor", "bottom_color", "vec3">>}

\* C9: SetPropertyData::new maps each of the nine variants to its fixed
\* name, with pairwise distinct names, and carries the value unchanged; the
\* encoded value has the variant's shape, so the name determines the shape,
\* and the (name, value) pair comes back exactly from a decoding and
\* encodes again to the same bytes.
C9_PropertyMapping ==
    /\ \A q \in PropertyValues :
        PropertyName(prop.property) = PropertyName(q)
            <=> prop.property.variant = q.variant
    /\ (propData /= None) =>
        /\ propData[1].value = prop.property
        /\ propData[1].path = prop.path
        /\ \E row \in PropertyTable :
            /\ row[1] = prop.property.variant
            /\ row[2] = propData[1].property
    /\ (propWire /= None) =>
        /\ propWire[1].value.data = prop.property.value
        /\ \E row \in PropertyTable :
            /\ row[2] = propWire[1].property
            /\ row[3] = propWire[1].value.shape
            /\ row[1] = prop.property.variant
    /\ (propBack /= None) =>
        /\ propBack[1].property = propData[1].property
        /\ propBack[1].value.value = prop.property.value
        /\ Serialize_SetPropertyData(propBack[1]) = propWire[1]

\* C9 witness: a Scale value, which shares its shape with Position, went
\* through new, the encoder and the decoder.
C9_Witness ==
    /\ propBack /= None
    /\ prop.property.variant = "Scale"
    /\ prop.property.value = <<1, 0, 1>>
    /\ propData[1].property = "scale"

\* The discriminant the claim gives each operation.
ExpectedRequestType(op) ==
    CASE op = "SetObject" -> "set_object"
      [] op = "SetTransform" -> "set_transform"
      [] op = "SetProperty" -> "set_property"
      [] op = "Delete" -> "delete"

\* C10: every message sent carries, as its first part, one of the four
\* discriminants, and it is the one of the operation that sent it.
C10_RequestTypes ==
    \A i \in 1..Len(wire) :
        /\ wire[i].frames[1] \in
            {"set_object", "set_transform", "set_property", "delete"}
        /\ wire[i].frames[1] = ExpectedRequestType(wire[i].by)

\* C10 witness: two different operations have each sent a message.
C10_Witness ==
    /\ Len(wire) = 2
    /\ wire[1].by = "Delete"
    /\ wire[2].by = "SetProperty"

(***************************************************************************)
(* Claims about the messages and the request/reply discipline of the       *)
(* client.                                                                 *)
(***************************************************************************)
\* C11: every message sent has exactly three parts, in this order: the
\* discriminant of the operation, the path the caller gave, and the encoded
\* payload of the data the operation constructed.
C11_ThreeParts ==
    \A i \in 1..Len(wire) :
        /\ Len(wire[i].frames) = 3
        /\ wire[i].frames[1] = ExpectedRequestType(wire[i].by)
        /\ wire[i].frames[2] = wire[i].path
        /\ wire[i].frames[3] = to_vec_named(wire[i].by, wire[i].data)

\* C11 witness: set_object and set_transform have each sent their message,
\* for different paths.
C11_Witness ==
    /\ Len(wire) = 2
    /\ wire[1].by = "SetObject"
    /\ wire[2].by = "SetTransform"
    /\ wire[1].path /= wire[2].path

\* The number of replies the client has read off the socket, and the number
\* of messages sent whose reply it has not read.
Consumed == served - Len(inbox)
Outstanding == Len(wire) - Consumed

\* C12: at most one request is outstanding: every message but the last one
\* sent has had its reply read before the next message was sent, and a
\* socket that is ready has none outstanding; after failed calls too.
C12_OneOutstanding ==
    /\ Outstanding \in {0, 1}
    /\ \A i \in 1..(Len(wire) - 1) : i <= Consumed
    /\ sock = "ready" => Outstanding = 0
    /\ pc = "recv" => Outstanding = 1

\* C12 witness: a second message is out, the reply to the first one was
\* read, and the second call is waiting for its own.
C12_Witness ==
    /\ Len(wire) = 2
    /\ Consumed = 1
    /\ pc = "recv"
    /\ ret = "none"

\* C13: a command that reaches the send while the reply to an earlier
\* message is unread is not transmitted and returns the send error, and a
\* reply a call reads is the reply to the message that call sent.
C13_RejectedWhileUnread ==
    [][ /\ (pc = "send" /\ Outstanding = 1) =>
            /\ wire' = wire
            /\ pc' \in {"send", "idle"}
            /\ pc' = "idle" => ret' = "Err:send"
        /\ (pc = "recv" /\ ret' \in {"Ok", "panic"}) =>
            /\ inbox /= <<>>
            /\ Head(inbox).for = Len(wire)
            /\ wire[Len(wire)].callNo = ncalls ]_vars

\* C13 witness: the first call returned after its receive failed, and the
\* second call was rejected at the send with nothing transmitted.
C13_Witness ==
    /\ ncalls = 2
    /\ Len(wire) = 1
    /\ wire[1].callNo = 1
    /\ Outstanding = 1
    /\ pc = "idle"
    /\ ret = "Err:send"

\* A step that ends the call in progress, and a step in which the call in
\* progress reads the reply to the message it sent.
CallEnds == pc \in {"encode", "send", "recv"} /\ pc' \in {"idle", "panicked"}
AckRead ==
    /\ pc = "recv"
    /\ inbox /= <<>>
    /\ Head(inbox).for = Len(wire)
    /\ wire[Len(wire)].callNo = ncalls
    /\ inbox' = Tail(inbox)
    /\ ret' \in {"Ok", "panic"}

\* C14 as claimed: a call ends only by reading the reply to its own message
\* or with a transport error (of the send or of the receive).
C14_EndsOnAckOrTransportError ==
    [][CallEnds => (AckRead \/ ret' \in {"Err:send", "Err:recv"})]_vars

\* C14: a call ends only by reading the reply to its own message, with a
\* transport error, or with an encoding error before anything was sent; a
\* call waiting for a reply that has not come ends only with a failed
\* receive.
C14_EndsOnAckOrError ==
    [][ /\ CallEnds =>
            \/ AckRead
            \/ ret' \in {"Err:send", "Err:recv"}
            \/ ret' = "Err:encode" /\ pc = "encode" /\ wire' = wire
        /\ (pc = "recv" /\ inbox = <<>> /\ pc' /= "recv") =>
            ret' = "Err:recv" ]_vars

\* C14 witness: the second call returned Ok after its message was sent and
\* the reply to it was read.
C14_Witness ==
    /\ ncalls = 2
    /\ pc = "idle"
    /\ ret = "Ok"
    /\ Len(wire) = 2
    /\ wire[2].callNo = 2
    /\ Consumed = 2

\* C15: nothing is sent before the payload is encoded, and a call whose
\* encoding fails returns the error with nothing sent, nothing received and
\* the socket ready for the next request.
C15_EncodeFailureLeavesReady ==
    [][ /\ wire' /= wire =>
            /\ pc = "send"
            /\ buf = Some(to_vec_named(call[1].op, call[1].data))
            /\ wire' = Append(wire, Sent)
            /\ Len(Sent.frames) = 3
        /\ (pc = "encode" /\ ret' = "Err:encode") =>
            /\ pc' = "idle"
            /\ wire' = wire
            /\ inbox' = inbox
            /\ served' = served
        /\ (pc = "encode" /\ ret' = "Err:encode") => sock' = "ready" ]_vars

\* The same without the last conjunct: what an encoding failure does not
\* touch.
EncodeFailureTouchesNothing ==
    [][ /\ wire' /= wire =>
            /\ pc = "send"
            /\ buf = Some(to_vec_named(call[1].op, call[1].data))
            /\ wire' = Append(wire, Sent)
        /\ (pc = "encode" /\ ret' = "Err:encode") =>
            /\ pc' = "idle"
            /\ wire' = wire
            /\ inbox' = inbox
            /\ served' = served
            /\ sock' = sock ]_vars

\* C16: a call transmits at most once; a failed send returns the error
\* without a receive; a failed receive returns the error without sending
\* again; and after either error the socket takes the command when the
\* caller issues it again.
C16_ErrorsReturnedChannelUsable ==
    [][ /\ wire' /= wire =>
            /\ Len(wire') = Len(wire) + 1
            /\ \A i \in 1..Len(wire) : wire[i].callNo /= ncalls
        /\ (pc = "send" /\ ret' = "Err:send") =>
            pc' = "idle" /\ wire' = wire /\ inbox' = inbox
        /\ (pc = "recv" /\ ret' = "Err:recv") =>
            pc' = "idle" /\ wire' = wire /\ inbox' = inbox
        /\ ret' \in {"Err:send", "Err:recv"} => sock' = "ready" ]_vars

\* The same without the last conjunct: no retry inside a call.
NoRetryInsideCall ==
    [][ /\ wire' /= wire =>
            /\ Len(wire') = Len(wire) + 1
            /\ \A i \in 1..Len(wire) : wire[i].callNo /= ncalls
        /\ (pc = "send" /\ ret' = "Err:send") =>
            pc' = "idle" /\ wire' = wire /\ inbox' = inbox
        /\ (pc = "recv" /\ ret' = "Err:recv") =>
            pc' = "idle" /\ wire' = wire /\ inbox' = inbox ]_vars

\* C17: new() connects at once, to the one endpoint it was given, and
\* either returns a client whose socket is connected or panics and returns
\* nothing, for good; a call is made, and a message sent, only through a
\* connected socket, and only to that endpoint.
C17_NoClientWithoutConnect ==
    [][ /\ (pc = "start" /\ pc' /= "start") =>
            \/ pc' = "idle" /\ sock' = "ready" /\ endpoint' /= None
            \/ pc' = "panicked" /\ sock' = "none" /\ endpoint' = None
        /\ pc = "panicked" => pc' = "panicked"
        /\ endpoint /= None => endpoint' = endpoint
        /\ sock' \notin {"ready", "awaiting"} =>
            /\ pc' \in {"start", "panicked"}
            /\ call' = None
            /\ ncalls' = 0
            /\ wire' = <<>>
        /\ \A i \in 1..Len(wire') : endpoint' = Some(wire'[i].to) ]_vars

\* C17 witness: the connect failed; new() panicked and there is no client.
C17_Witness ==
    /\ pc = "panicked"
    /\ sock = "none"
    /\ endpoint = None
    /\ ncalls = 0

(***************************************************************************)
(* Claims about Image::new.                                                *)
(***************************************************************************)
\* The extension as the claim words it: the text after the last '.', or the
\* whole path when it has none.
AfterLastDot(path) ==
    LET dots == {i \in 1..Len(path) : path[i] = "."}
    IN IF dots = {}
       THEN path
       ELSE LET last == CHOOSE i \in dots : \A j \in dots : j <= i
            IN SubSeq(path, last + 1, Len(path))

\* C18: for every path whose extension is not exactly "png", Image::new
\* fails as an unsupported image type, having read no file and returning no
\* Image; an Image it returns has the identifier minted for it and a URL
\* that begins with "data:image/png;base64,".
C18_OnlyPngLoads ==
    /\ (imgPc \notin {"idle", "start"} /\ AfterLastDot(imgPath) /= Png) =>
            /\ imgPc = "panicked"
            /\ imgPanic = "Unsupported image type"
            /\ imgReads = 0
            /\ img = None
    /\ imgPanic = "Unsupported image type" => AfterLastDot(imgPath) /= Png
    /\ img /= None =>
            /\ imgPc = "done"
            /\ AfterLastDot(imgPath) = Png
            /\ img[1].uuid + 1 = nextUuid
            /\ Len(img[1].url) = 2
            /\ img[1].url[1] = "data:image/png;base64,"
            /\ img[1].url[2].base64 \in FileContents

\* C18 witness: a path with an extension that is not "png", though it holds
\* the text "png" before its last '.', was refused.
C18_Witness ==
    /\ imgPath = <<"p", "n", "g", ".">>
    /\ imgPc = "panicked"
    /\ imgReads = 0

(***************************************************************************)
(* Claims about the pose matrix of set_transform and Object::new.          *)
(***************************************************************************)
\* C19: for every path and every pose with identity rotation and
\* translation t given to set_transform, the data it builds has
\* request_type "set_transform", the path given, and a 4x4 matrix with t in
\* its fourth column, the identity in its upper left 3x3 block and
\* (0, 0, 0, 1) as its last row; Object::new of the same pose stores the
\* same matrix.
C19_TransformEnvelope ==
    (call /= None /\ call[1].op = "SetTransform"
        /\ call[1].arg.R = Matrix3_identity) =>
        LET d == call[1].data
            t == call[1].arg.t
        IN /\ d.request_type = "set_transform"
           /\ d.path = call[1].path
           /\ DOMAIN d = {"matrix", "path", "request_type"}
           /\ d.matrix = << <<1, 0, 0, t[1]>>,
                            <<0, 1, 0, t[2]>>,
                            <<0, 0, 1, t[3]>>,
                            <<0, 0, 0, 1>> >>
           /\ Object_new(call[1].arg, "Mesh", 0).matrix = d.matrix

\* C19 witness: set_transform was called for "/robot/link0" with the
\* translation (1, 0, 0) and no rotation, and its message is out.
C19_Witness ==
    /\ call /= None
    /\ call[1].op = "SetTransform"
    /\ call[1].path = "/robot/link0"
    /\ call[1].arg = Isometry3_from_parts(<<1, 0, 0>>, Matrix3_identity)
    /\ Len(wire) >= 1
    /\ wire[Len(wire)].callNo = ncalls

(***************************************************************************)
(* Claims about where the geometry references of an aggregate are.         *)
(***************************************************************************)
\* The root the builder was given is one that Object::new returns.
RootFromObjectNew ==
    /\ bld.object /= None
    /\ \E o \in Origins, ot \in ObjectTypes :
        bld.object[1] = Object_new(o, ot, bld.object[1].uuid)

C20_DefaultRootReached ==
    /\ Built
    /\ Len(bld.geometries[1]) = 1
    /\ bld.object = None
    /\ bld.texture = None
    /\ bld.image = None

(***************************************************************************)
(* Claims about two callers of one client.                                 *)
(***************************************************************************)
\* The messages sent on the shared socket whose reply nobody has read.
ShOutstanding == Len(chan.wire) - (chan.served - Len(chan.inbox))

\* A second message was sent while the reply to the first was unread.
SentAheadOfReply == ShOutstanding >= 2

\* A caller has read the reply to a message the other caller sent.
ReadOthersReply ==
    \E c \in Callers :
        /\ cpc[c].got /= 0
        /\ chan.wire[cpc[c].got].by /= c

SentAheadReached ==
    /\ sharing = "none"
    /\ SentAheadOfReply

\* With the lock, both callers do get their calls through.
BothServedUnderMutex ==
    /\ sharing = "mutex"
    /\ cpc["a"].ret = "Ok"
    /\ cpc["b"].ret = "Ok"
    /\ Len(chan.wire) = 2

(***************************************************************************)
(* Further claims about build().                                           *)
(***************************************************************************)
\* The variant of the root build() works on: the one supplied, or the
\* default's.
RootVariant ==
    IF bld.object = None THEN Object_default(0).object_type
    ELSE bld.object[1].object_type

\* C22: every child build() synthesizes has the variant of the root and no
\* children of its own, and the children stand in the order of the
\* geometry list, one per geometry, minted in that order.
C22_ChildrenLikeRoot ==
    Built =>
        LET lo == out[1]
            given == bld.geometries[1]
            kids == lo.object.children
        IN  /\ lo.object.object_type = RootVariant
            /\ Len(kids) = Len(given)
            /\ \A i \in 1..Len(kids) :
                /\ kids[i].object_type = RootVariant
                /\ kids[i].children = <<>>
                /\ kids[i].geometry = Some(given[i].uuid)
            /\ \A i, j \in 1..Len(kids) :
                i < j => kids[i].uuid < kids[j].uuid

\* C22 witness: two geometries of different kinds were assembled under a
\* supplied root that is not a mesh and had a child of its own.
C22_Witness ==
    /\ Built
    /\ Len(bld.geometries[1]) = 2
    /\ bld.geometries[1][1].geometry /= bld.geometries[1][2].geometry
    /\ bld.object /= None
    /\ bld.object[1].object_type = "LineSegments"
    /\ bld.object[1].children /= <<>>
    /\ out[1].object.children[2].object_type = "LineSegments"

(***************************************************************************)
(* Claims about the frames and the payload of one message.                 *)
(***************************************************************************)
\* C23: in every message sent, the payload has a "type" and a "path" field;
\* the first frame equals the payload's "type" and the discriminant of the
\* operation, and the second frame equals the payload's "path" and the path
\* the caller gave.
C23_FramesAgreeWithPayload ==
    \A i \in 1..Len(wire) :
        LET m == wire[i]
            payload == m.frames[3]
        IN  /\ {"type", "path"} \subseteq DOMAIN payload
            /\ m.frames[1] = payload.type
            /\ m.frames[2] = payload.path
            /\ m.frames[1] = ExpectedRequestType(m.by)
            /\ m.frames[2] = m.path

\* C23 witness: set_property and delete have each sent their message, for
\* different paths.
C23_Witness ==
    /\ Len(wire) = 2
    /\ wire[1].by = "SetProperty"
    /\ wire[2].by = "Delete"
    /\ wire[1].path /= wire[2].path
    /\ wire[1].frames[3].type = "set_property"

\* C24: the aggregate build() returns differs from what it was given (the
\* builder's fields, defaults filled in) in four places at most: the image
\* reference of an image-mapped texture, and only when an image was given;
\* the material's map, and only when a texture was given; the root's
\* material reference; the root's child list.  The metadata, the image,
\* the geometry list, the rest of the material, of the root and of an
\* image-mapped texture, and a text-overlay texture as a whole are as given.
C24_BuildFrame ==
    Built =>
        LET i == inp[1]
            o == out[1]
        IN  /\ o.metadata = i.metadata
            /\ o.image = i.image
            /\ o.geometries = i.geometries
            /\ [o.material EXCEPT !.map = i.material.map] = i.material
            /\ i.texture = None => o.material = i.material
            /\ [o.object EXCEPT !.material = i.object.material,
                                !.children = i.object.children] = i.object
            /\ i.texture = None => o.texture = None
            /\ i.texture /= None =>
                /\ o.texture /= None
                /\ i.image = None => o.texture = i.texture
                /\ i.texture[1].texture_type.variant = "Text" =>
                        o.texture = i.texture
                /\ i.texture[1].texture_type.variant = "Image" =>
                        [o.texture[1] EXCEPT !.texture_type.image =
                            i.texture[1].texture_type.image] = i.texture[1]
            /\ bld.metadata /= None => i.metadata = bld.metadata[1]
            /\ i.texture = bld.texture
            /\ i.image = bld.image
            /\ i.geometries = bld.geometries[1]
            /\ bld.material /= None => i.material = bld.material[1]
            /\ bld.object /= None => i.object = bld.object[1]

\* C24 witness: everything was supplied -- a metadata that is not the
\* default, an image-mapped texture with its own repeat values, an image,
\* two geometries, a material that is not the default one and a root --
\* and build() changed all four places.
C24_Witness ==
    /\ Built
    /\ bld.metadata /= None
    /\ bld.texture /= None
    /\ bld.texture[1].texture_type.variant = "Image"
    /\ bld.texture[1].texture_type.repeat = <<2, 3>>
    /\ bld.image /= None
    /\ Len(bld.geometries[1]) = 2
    /\ bld.material /= None
    /\ bld.material[1].material_type = "LineBasic"
    /\ bld.object /= None
    /\ out[1].texture /= inp[1].texture
    /\ out[1].material /= inp[1].material
    /\ out[1].object.material /= inp[1].object.material
    /\ out[1].object.children /= inp[1].object.children

\* C24, the text overlay: supplied with an image, it came back as given.
TextOverlayKept ==
    /\ Built
    /\ bld.image /= None
    /\ bld.texture /= None
    /\ bld.texture[1].texture_type.variant = "Text"
    /\ out[1].texture = bld.texture

====
